---- MODULE Spec2Model ----
(***************************************************************************)
(* Model of the vision-craft developer scripts:                            *)
(*   scripts/check-header-guards.py, scripts/check-todos.py,               *)
(*   scripts/check-namespaces.py, scripts/run-coverage.py and              *)
(*   scripts/run-code-quality.py.                                          *)
(*                                                                         *)
(* Text is modelled character by character: a Python str is a sequence of  *)
(* one-character strings, so that substring tests, regular-expression      *)
(* searches, splitting, stripping and upper-casing are computed the way    *)
(* the scripts compute them.  Paths follow pathlib's POSIX flavour.        *)
(***************************************************************************)
EXTENDS Integers, Sequences, FiniteSets, TLC

VARIABLES
    \* ---- one run of a checker's main() (Spec) ----
    checker,     \* which of the three scripts runs
    fs,          \* the file system: path -> [fault, content]
    argv,        \* sys.argv[1:]
    pc,          \* position inside main()
    idx,         \* number of files the for-loop has handled
    failed,      \* main's list `failed`
    out,         \* everything printed to stdout, in order
    opened,      \* the paths open() was called on, in order
    exitCode,    \* main's return value (-1 while running)
    \* ---- one call of check_header_guard (SpecGuard) ----
    hgPath,      \* the filepath argument
    hgShape,     \* structure of the header the content was rendered from
    hgFile,      \* what open()/read() gives: [fault, content]
    hgDone,      \* the call has returned
    hgGuard,     \* its local expected_guard
    hgRet,       \* its return value
    hgOut,       \* what it printed
    \* ---- one call of check_todos (SpecTodos) ----
    tdShape,     \* structure of the lines the content was rendered from
    tdFile,      \* what open()/readlines() gives: [fault, content]
    tdDone,
    tdRet,
    tdOut,
    \* ---- one run of run-coverage.py (SpecCov) ----
    cvArgs,      \* the flags --clean and --no-build
    cvTools,     \* which required tools shutil.which / Path.exists find
    cvPc,        \* the pipeline step about to run
    cvTrace,     \* the pipeline steps entered so far, in order
    cvBuildDir,  \* build/ exists
    cvHtml,      \* build/coverage/html/index.html exists
    cvExit,      \* process exit status (-1 while running)
    cvSoft,      \* the check=False commands that returned non-zero
    cvCause,     \* why the run stopped
    \* ---- one run of run-code-quality.py (SpecWrappers) ----
    cqArgs,      \* the flags --format-only and --tidy-only
    cqFiles,     \* how many C++ files the globs find
    cqBuild,     \* Path("build").exists()
    cqPc,        \* position inside main() and the check it is in
    cqProbe,     \* clang-format candidates tried so far
    cqIdx,       \* files the format loop has handled
    cqIssues,    \* run_clang_format_check's counter `issues'
    cqSuccess,   \* main's flag `success'
    cqCalls,     \* the run_command calls made so far, in order
    cqExit,      \* process exit status (-1 while running)
    cqCause      \* how the process ended

vars == << checker, fs, argv, pc, idx, failed, out, opened, exitCode,
           hgPath, hgShape, hgFile, hgDone, hgGuard, hgRet, hgOut,
           tdShape, tdFile, tdDone, tdRet, tdOut,
           cvArgs, cvTools, cvPc, cvTrace, cvBuildDir, cvHtml, cvExit,
           cvSoft, cvCause,
           cqArgs, cqFiles, cqBuild, cqPc, cqProbe, cqIdx, cqIssues,
           cqSuccess, cqCalls, cqExit, cqCause >>

mainVars == << checker, fs, argv, pc, idx, failed, out, opened, exitCode >>
hgVars   == << hgPath, hgShape, hgFile, hgDone, hgGuard, hgRet, hgOut >>
tdVars   == << tdShape, tdFile, tdDone, tdRet, tdOut >>
cvVars   == << cvArgs, cvTools, cvPc, cvTrace, cvBuildDir, cvHtml, cvExit,
               cvSoft, cvCause >>
cqVars   == << cqArgs, cqFiles, cqBuild, cqPc, cqProbe, cqIdx, cqIssues,
               cqSuccess, cqCalls, cqExit, cqCause >>

(***************************************************************************)
(* Bounds                                                                  *)
(***************************************************************************)
MaxAtoms  == 3   \* path = at most this many path atoms
MaxFiles  == 3   \* len(sys.argv[1:])
MaxLines  == 4   \* lines of a multi-line TODO file
MaxChunks == 2   \* annotation markers on one line
MaxCpp    == 2   \* C++ files under src/ and tests/

(***************************************************************************)
(* Strings as sequences of characters                                      *)
(***************************************************************************)
NL  == "\n"
TAB == "\t"

RECURSIVE Flatten(_)
Flatten(ss) == IF ss = << >> THEN << >> ELSE Head(ss) \o Flatten(Tail(ss))

\* s[i:] and s[i:j] with 1-based inclusive bounds
From(s, i) == SubSeq(s, i, Len(s))

\* s.startswith(pat, i-1)
StartsAt(s, pat, i) ==
    /\ i >= 1
    /\ i + Len(pat) - 1 <= Len(s)
    /\ \A k \in 1..Len(pat) : s[i + k - 1] = pat[k]

\* pat in s
Contains(s, pat) == \E i \in 1..(Len(s) + 1) : StartsAt(s, pat, i)

\* s.find(pat) + 1, or 0 when pat does not occur
Find(s, pat) ==
    IF Contains(s, pat)
    THEN CHOOSE i \in 1..(Len(s) + 1) :
            /\ StartsAt(s, pat, i)
            /\ \A j \in 1..(i - 1) : ~StartsAt(s, pat, j)
    ELSE 0

\* str.replace(old, new) for a one-character old
ReplaceChar(s, old, new) == [k \in 1..Len(s) |-> IF s[k] = old THEN new ELSE s[k]]

\* str.upper(), on the letters the model uses
UpperChar(c) ==
    CASE c = "a" -> "A" [] c = "b" -> "B" [] c = "c" -> "C" [] c = "e" -> "E"
      [] c = "h" -> "H" [] c = "r" -> "R" [] c = "s" -> "S" [] c = "y" -> "Y"
      [] OTHER -> c

Upper(s) == [k \in 1..Len(s) |-> UpperChar(s[k])]

\* the characters \s matches, and the ones str.strip() removes
IsSpace(c) == c \in {" ", TAB, NL}

(***************************************************************************)
(* scripts/check-header-guards.py                                          *)
(***************************************************************************)
SRC_SLASH   == << "s", "r", "c", "/" >>
PRAGMA_ONCE == << "#", "p", "r", "a", "g", "m", "a", " ", "o", "n", "c", "e" >>
HASH_IFNDEF == << "#", "i", "f", "n", "d", "e", "f" >>
HASH_DEFINE == << "#", "d", "e", "f", "i", "n", "e" >>

\* str.split("/")
RECURSIVE SplitSlash(_)
SplitSlash(s) ==
    LET i == Find(s, << "/" >>)
    IN  IF i = 0 THEN << s >>
        ELSE << SubSeq(s, 1, i - 1) >> \o SplitSlash(From(s, i + 1))

\* "/".join(parts)
RECURSIVE JoinSlash(_)
JoinSlash(parts) ==
    IF parts = << >> THEN << >>
    ELSE IF Len(parts) = 1 THEN Head(parts)
    ELSE Head(parts) \o << "/" >> \o JoinSlash(Tail(parts))

\* Path(filepath).as_posix() on a POSIX system: the root is kept ("//" only
\* for exactly two leading slashes), empty and "." components are dropped,
\* and the empty path is "."
as_posix(filepath) ==
    LET root  == IF StartsAt(filepath, << "/", "/" >>, 1)
                    /\ ~StartsAt(filepath, << "/", "/", "/" >>, 1)
                 THEN << "/", "/" >>
                 ELSE IF StartsAt(filepath, << "/" >>, 1) THEN << "/" >>
                 ELSE << >>
        parts == SelectSeq(SplitSlash(filepath),
                           LAMBDA c : c # << >> /\ c # << "." >>)
        text  == root \o JoinSlash(parts)
    IN  IF text = << >> THEN << "." >> ELSE text

\* a variant that removes 'src/' only where the path begins with it
relative_path_front_only(posix) ==
    IF StartsAt(posix, SRC_SLASH, 1)
    THEN From(posix, Len(SRC_SLASH) + 1)
    ELSE posix

\* relative_path after lines 14-16: relative_path.split('src/', 1)[1], what
\* follows the first 'src/' wherever it stands
relative_path(posix) ==
    IF Contains(posix, SRC_SLASH)
    THEN From(posix, Find(posix, SRC_SLASH) + Len(SRC_SLASH))
    ELSE posix

\* expected_guard, line 18
expected_guard(filepath) ==
    Upper(ReplaceChar(ReplaceChar(relative_path(as_posix(filepath)),
                                  "/", "_"), ".", "_"))

\* re.search(rf'{directive}\s+{re.escape(guard)}', content) is not None
search_directive(directive, guard, content) ==
    \E i \in 1..Len(content) :
        /\ StartsAt(content, directive, i)
        /\ \E k \in 1..(Len(content) - i) :
              /\ \A j \in 0..(k - 1) :
                    /\ i + Len(directive) + j <= Len(content)
                    /\ IsSpace(content[i + Len(directive) + j])
              /\ StartsAt(content, guard, i + Len(directive) + k)

\* one printed line
Line(kind, file, text, n) == [kind |-> kind, file |-> file, text |-> text, n |-> n]

\* what a call of a check function gives its caller: the value returned, the
\* lines printed, and whether an exception left the function instead
Returned(ret, printed) == [ret |-> ret, out |-> printed, raised |-> FALSE]
Raised == [ret |-> FALSE, out |-> << >>, raised |-> TRUE]

\* lines 23-25: except Exception as e: print(...); return False
header_guard_read_fault(filepath, fault) ==
    Returned(FALSE, << Line("read_error", filepath, fault, 0) >>)

\* check_header_guard(filepath) with the file open() finds there
check_header_guard(filepath, file) ==
    LET guard == expected_guard(filepath)
    IN  IF file.fault # << >>
        THEN header_guard_read_fault(filepath, file.fault)
        ELSE IF Contains(file.content, PRAGMA_ONCE)
        THEN Returned(TRUE, << >>)
        ELSE IF /\ search_directive(HASH_IFNDEF, guard, file.content)
                /\ search_directive(HASH_DEFINE, guard, file.content)
        THEN Returned(TRUE, << >>)
        ELSE Returned(FALSE, << Line("missing_guard", filepath, guard, 0) >>)

(***************************************************************************)
(* Inputs of check_header_guard: paths and header files                    *)
(***************************************************************************)
PathAtoms ==
    { SRC_SLASH, << "a" >>, << "." >>, << "/" >>, << "b", ".", "h" >> }

RECURSIVE PathsUpTo(_)
PathsUpTo(n) ==
    IF n = 0 THEN { << >> }
    ELSE LET P == PathsUpTo(n - 1)
         IN  P \cup { p \o a : p \in P, a \in PathAtoms }

\* "src/Layers/Layer.h"
ExamplePath ==
    << "s", "r", "c", "/", "L", "a", "y", "e", "r", "s", "/",
       "L", "a", "y", "e", "r", ".", "h" >>

\* "LAYERS_LAYER_H"
ExampleGuard ==
    << "L", "A", "Y", "E", "R", "S", "_", "L", "A", "Y", "E", "R", "_", "H" >>

Paths == PathsUpTo(MaxAtoms) \cup { ExamplePath }

\* str(e) of the exception open()/read() raises
IOFaults == { << "[Errno 2] No such file or directory" >>,
              << "[Errno 13] Permission denied" >> }

\* how a directive's token relates to the guard expected for the path
TokKinds == { "absent", "exact", "suffixed", "prefixed", "truncated", "other" }

Token(kind, guard) ==
    CASE kind = "exact"     -> guard
      [] kind = "suffixed"  -> guard \o << "_" >>
      [] kind = "prefixed"  -> << "X" >> \o guard
      [] kind = "truncated" -> SubSeq(guard, 1, Len(guard) - 1)
      [] OTHER              -> << "X" >>

HeaderShapes ==
    [pragma : {FALSE}, ifndef : TokKinds, define : TokKinds, fault : { << >> }]
    \cup [pragma : {TRUE}, ifndef : {"absent", "exact", "other"},
          define : {"absent", "other"}, fault : { << >> }]
    \cup [pragma : {FALSE}, ifndef : {"absent"}, define : {"absent"},
          fault : IOFaults]

DirectiveLine(directive, kind, guard) ==
    IF kind = "absent" THEN << >>
    ELSE directive \o << " " >> \o Token(kind, guard) \o << NL >>

\* the text of a header of the given shape, for the guard `guard'
HeaderText(shape, guard) ==
    << "/", "/", "h", NL >>
    \o (IF shape.pragma THEN PRAGMA_ONCE \o << NL >> ELSE << >>)
    \o DirectiveLine(HASH_IFNDEF, shape.ifndef, guard)
    \o DirectiveLine(HASH_DEFINE, shape.define, guard)
    \o << "i", "n", "t", " ", "v", ";", NL >>

HeaderFile(shape, filepath) ==
    [fault   |-> shape.fault,
     content |-> IF shape.fault # << >> THEN << >>
                 ELSE HeaderText(shape, expected_guard(filepath))]

(***************************************************************************)
(* scripts/check-todos.py                                                  *)
(***************************************************************************)
SLASH_TODO  == << "/", "/", "T", "O", "D", "O" >>
SLASH_FIXME == << "/", "/", "F", "I", "X", "M", "E" >>
Markers     == { SLASH_TODO, SLASH_FIXME }

\* f.readlines(): the lines of the text, each keeping its newline
RECURSIVE readlines(_)
readlines(content) ==
    IF content = << >> THEN << >>
    ELSE LET i == Find(content, << NL >>)
         IN  IF i = 0 THEN << content >>
             ELSE << SubSeq(content, 1, i) >> \o readlines(From(content, i + 1))

\* str.strip()
RECURSIVE lstrip(_)
lstrip(s) == IF s # << >> /\ IsSpace(Head(s)) THEN lstrip(Tail(s)) ELSE s

RECURSIVE rstrip(_)
rstrip(s) ==
    IF s # << >> /\ IsSpace(s[Len(s)]) THEN rstrip(SubSeq(s, 1, Len(s) - 1))
    ELSE s

strip(s) == rstrip(lstrip(s))

\* todo_pattern = r'//(TODO|FIXME)' matches at position i
todo_match_at(line, i) == \E m \in Markers : StartsAt(line, m, i)

\* todo_pattern.search(line) is not None
todo_pattern_search(line) == \E i \in 1..Len(line) : todo_match_at(line, i)

\* the positions where (\([^)]+\))? can end when it starts at j: it matches
\* nothing, or a parenthesis with at least one character that is not ')'
attribution_ends(line, j) ==
    { j } \cup
    { e + 1 : e \in { e \in (j + 2)..Len(line) :
                         /\ line[j] = "("
                         /\ line[e] = ")"
                         /\ \A t \in (j + 1)..(e - 1) : line[t] # ")" } }

\* valid_pattern = r'//(TODO|FIXME)(\([^)]+\))?:\s+.+' matches at position i
valid_match_at(line, i) ==
    \E m \in Markers :
        /\ StartsAt(line, m, i)
        /\ \E a \in attribution_ends(line, i + Len(m)) :
              /\ a <= Len(line)
              /\ line[a] = ":"
              /\ \E k \in 1..(Len(line) - a) :
                    /\ \A t \in (a + 1)..(a + k) : IsSpace(line[t])
                    /\ a + k + 1 <= Len(line)
                    /\ line[a + k + 1] # NL

\* valid_pattern.search(line) is not None
valid_pattern_search(line) == \E i \in 1..Len(line) : valid_match_at(line, i)

\* a variant that judges only the first marker of the line
first_marker_is_issue(line) ==
    /\ todo_pattern_search(line)
    /\ ~valid_match_at(line, CHOOSE i \in 1..Len(line) :
                                /\ todo_match_at(line, i)
                                /\ \A j \in 1..(i - 1) : ~todo_match_at(line, j))

\* lines 22-23: the two nested ifs that decide a line is an issue
line_is_issue(line) ==
    /\ todo_pattern_search(line)
    /\ ~valid_pattern_search(line)

\* a variant of the loop that stops at the first issue
RECURSIVE collect_first_issue(_, _)
collect_first_issue(lines, i) ==
    IF i > Len(lines) THEN << >>
    ELSE IF line_is_issue(lines[i])
    THEN << [n |-> i, text |-> strip(lines[i])] >>
    ELSE collect_first_issue(lines, i + 1)

\* lines 21-24: for i, line in enumerate(lines, 1), from line i on
RECURSIVE collect_issues(_, _)
collect_issues(lines, i) ==
    IF i > Len(lines) THEN << >>
    ELSE (IF line_is_issue(lines[i])
          THEN << [n |-> i, text |-> strip(lines[i])] >>
          ELSE << >>)
         \o collect_issues(lines, i + 1)

\* a variant without the except clause: the exception leaves check_todos
todos_read_fault_propagates(filepath, fault) == Raised

\* lines 12-14: except Exception as e: print(...); return False
todos_read_fault(filepath, fault) ==
    Returned(FALSE, << Line("read_error", filepath, fault, 0) >>)

\* check_todos(filepath) with the file open() finds there
check_todos(filepath, file) ==
    IF file.fault # << >>
    THEN todos_read_fault(filepath, file.fault)
    ELSE LET issues == collect_issues(readlines(file.content), 1)
         IN  IF issues # << >>
             THEN Returned(FALSE,
                           << Line("block_header", filepath, << >>, 0),
                              Line("format_hint", filepath, << >>, 0) >>
                           \o [j \in 1..Len(issues) |->
                                 Line("issue", filepath, issues[j].text,
                                      issues[j].n)])
             ELSE Returned(TRUE, << >>)

(***************************************************************************)
(* scripts/check-namespaces.py                                             *)
(***************************************************************************)
NAMESPACE_KW  == << "n", "a", "m", "e", "s", "p", "a", "c", "e", " " >>
CLOSE_COMMENT == << "}", " ", "/", "/", " " >> \o NAMESPACE_KW

\* lines 12-14: except Exception as e: print(...); return False
namespaces_read_fault(filepath, fault) ==
    Returned(FALSE, << Line("read_error", filepath, fault, 0) >>)

\* a variant that does check: a namespace needs a commented closing brace
check_namespaces_enforced(filepath, file) ==
    IF file.fault # << >>
    THEN namespaces_read_fault(filepath, file.fault)
    ELSE Returned(Contains(file.content, NAMESPACE_KW)
                     => Contains(file.content, CLOSE_COMMENT), << >>)

\* check_namespaces(filepath): namespaces and commented_closes are computed
\* and never used; every file that was read gets True (line 26)
check_namespaces(filepath, file) ==
    IF file.fault # << >>
    THEN namespaces_read_fault(filepath, file.fault)
    ELSE Returned(TRUE, << >>)

(***************************************************************************)
(* Inputs of check_todos: files described line by line.  A line is plain   *)
(* text or a run of annotation chunks; a chunk is a marker followed by an  *)
(* optional attribution, an optional colon, blanks and an optional text.   *)
(***************************************************************************)
BlankRuns == { << >>, << " " >>, << " ", TAB >> }

RichChunks ==
    [kw : {"TODO", "FIXME"}, attr : {"none", "named", "empty"},
     colon : BOOLEAN, blanks : BlankRuns, text : BOOLEAN]

CoreChunks ==
    [kw : {"TODO", "FIXME"}, attr : {"none"},
     colon : BOOLEAN, blanks : { << >>, << " " >> }, text : BOOLEAN]

ChunkText(c) ==
    (IF c.kw = "TODO" THEN SLASH_TODO ELSE SLASH_FIXME)
    \o (CASE c.attr = "named" -> << "(", "a", ")" >>
          [] c.attr = "empty" -> << "(", ")" >>
          [] OTHER            -> << >>)
    \o (IF c.colon THEN << ":" >> ELSE << >>)
    \o c.blanks
    \o (IF c.text THEN << "x" >> ELSE << >>)

PlainKinds == { "blank", "code", "spaced" }

PlainText(kind) ==
    CASE kind = "code"   -> << "v", ";" >>
      [] kind = "spaced" -> << "/", "/", " ", "T", "O", "D", "O", " ", "x" >>
      [] OTHER           -> << >>

RECURSIVE SeqsOfLen(_, _)
SeqsOfLen(S, n) ==
    IF n = 0 THEN { << >> }
    ELSE { << x >> \o s : x \in S, s \in SeqsOfLen(S, n - 1) }

SeqsUpTo(S, n) == UNION { SeqsOfLen(S, k) : k \in 0..n }

LineShape(indent, plain, chunks) ==
    [indent |-> indent, plain |-> plain, chunks |-> chunks]

PlainLines == { LineShape(i, k, << >>) : i \in BOOLEAN, k \in PlainKinds }

RichLines == { LineShape(i, "blank", << c >>) : i \in BOOLEAN, c \in RichChunks }

MultiLines ==
    { LineShape(FALSE, "blank", cs) :
        cs \in UNION { SeqsOfLen(CoreChunks, k) : k \in 2..MaxChunks } }

Chunk(kw, attr, colon, blanks, text) ==
    [kw |-> kw, attr |-> attr, colon |-> colon, blanks |-> blanks, text |-> text]

\* the lines multi-line files are made of
FewLines ==
    { LineShape(FALSE, "code", << >>),
      LineShape(FALSE, "blank", << Chunk("TODO", "none", TRUE, << " " >>, TRUE) >>),
      LineShape(TRUE, "blank", << Chunk("TODO", "none", FALSE, << " " >>, TRUE) >>),
      LineShape(FALSE, "blank", << Chunk("FIXME", "named", TRUE, << >>, TRUE) >>),
      LineShape(FALSE, "blank", << Chunk("FIXME", "none", FALSE, << " " >>, TRUE),
                                   Chunk("TODO", "none", TRUE, << " " >>, TRUE) >>) }

TodoShapes ==
    { [lines |-> << l >>, finalNL |-> nl, fault |-> << >>] :
        l \in PlainLines \cup RichLines \cup MultiLines, nl \in BOOLEAN }
    \cup { [lines |-> ls, finalNL |-> TRUE, fault |-> << >>] :
             ls \in SeqsUpTo(FewLines, MaxLines) }
    \cup { [lines |-> << >>, finalNL |-> TRUE, fault |-> f] : f \in IOFaults }

LineText(l) ==
    (IF l.indent THEN << " " >> ELSE << >>)
    \o (IF l.chunks = << >> THEN PlainText(l.plain)
        ELSE Flatten([k \in 1..Len(l.chunks) |-> ChunkText(l.chunks[k])]))

\* the text of a file of the given shape
TodoText(shape) ==
    Flatten([k \in 1..Len(shape.lines) |->
                LineText(shape.lines[k])
                \o (IF k < Len(shape.lines) \/ shape.finalNL
                    THEN << NL >> ELSE << >>)])

TodoFile(shape) ==
    [fault   |-> shape.fault,
     content |-> IF shape.fault # << >> THEN << >> ELSE TodoText(shape)]

(***************************************************************************)
(* main() of the three checkers.  The three functions are the same code    *)
(* but for the check they call and the wording of the summary line.        *)
(***************************************************************************)
Checkers == { "header-guards", "todos", "namespaces" }

\* the check function main() of script c calls
Check(c, filepath, file) ==
    CASE c = "header-guards" -> check_header_guard(filepath, file)
      [] c = "todos"         -> check_todos(filepath, file)
      [] OTHER               -> check_namespaces(filepath, file)

\* a variant that prints a usage line and fails when no file is given
main_no_files_usage(c) ==
    [code |-> 1, out |-> << Line("usage", << >>, << c >>, 0) >>]

\* lines 46-47: if len(sys.argv) < 2: return 0
main_no_files(c) == [code |-> 0, out |-> << >>]

\* a variant that keeps only the last file's outcome
record_last_only(failedList, filepath, ret) ==
    IF ~ret THEN << filepath >> ELSE << >>

\* lines 53-54: if not check(filepath): failed.append(filepath)
record_result(failedList, filepath, ret) ==
    IF ~ret THEN Append(failedList, filepath) ELSE failedList

\* a variant that prints the summary line whatever the count
main_summary_always(c, failedList) ==
    << Line("summary", << >>, << c >>, Len(failedList)) >>

\* lines 56-57: if failed: print(f"\n{len(failed)} file(s) with ... issues")
main_summary(c, failedList) ==
    IF failedList # << >>
    THEN << Line("summary", << >>, << c >>, Len(failedList)) >>
    ELSE << >>

\* lines 56-60: return 1 if failed else 0
main_return(failedList) == IF failedList # << >> THEN 1 ELSE 0

\* how main() of script c stands when it is called
MainInit ==
    /\ pc = "start"
    /\ idx = 0
    /\ failed = << >>
    /\ out = << >>
    /\ opened = << >>
    /\ exitCode = -1

\* main() returns at once when no file is given
MainNoFiles ==
    /\ pc = "start"
    /\ Len(argv) + 1 < 2
    /\ pc' = "done"
    /\ exitCode' = main_no_files(checker).code
    /\ out' = out \o main_no_files(checker).out
    /\ UNCHANGED << checker, fs, argv, idx, failed, opened >>

\* files = sys.argv[1:]; failed = []
MainBegin ==
    /\ pc = "start"
    /\ ~(Len(argv) + 1 < 2)
    /\ pc' = "loop"
    /\ failed' = << >>
    /\ UNCHANGED << checker, fs, argv, idx, out, opened, exitCode >>

\* one turn of `for filepath in files' in the script c; an exception that
\* leaves the check function leaves main() and ends the process with status 1
MainLoop(c) ==
    /\ pc = "loop"
    /\ checker = c
    /\ idx < Len(argv)
    /\ LET filepath == argv[idx + 1]
           r == Check(c, filepath, fs[filepath])
       IN  /\ opened' = Append(opened, filepath)
           /\ out' = out \o r.out
           /\ IF r.raised
              THEN /\ pc' = "done"
                   /\ exitCode' = 1
                   /\ UNCHANGED << idx, failed >>
              ELSE /\ idx' = idx + 1
                   /\ failed' = record_result(failed, filepath, r.ret)
                   /\ UNCHANGED << pc, exitCode >>
    /\ UNCHANGED << checker, fs, argv >>

LoopHeaderGuards == MainLoop("header-guards")
LoopTodos        == MainLoop("todos")
LoopNamespaces   == MainLoop("namespaces")

\* after the loop: the summary line and the return value
MainFinish ==
    /\ pc = "loop"
    /\ idx = Len(argv)
    /\ pc' = "done"
    /\ out' = out \o main_summary(checker, failed)
    /\ exitCode' = main_return(failed)
    /\ UNCHANGED << checker, fs, argv, idx, failed, opened >>

(***************************************************************************)
(* Inputs of main(): two paths, and for each what the file system holds    *)
(***************************************************************************)
MainPaths ==
    { SRC_SLASH \o << "b", ".", "h" >>,
      << "a", "/", "b", ".", "h" >> }

FileKinds == { "clean", "guarded", "bare", "unreadable" }

TODO_GOOD  == SLASH_TODO \o << ":", " ", "x", NL >>
TODO_NAMED == SLASH_TODO \o << "(", "a", ")", ":", " ", "x", NL >>
TODO_BAD   == SLASH_TODO \o << " ", "x", NL >>
FIXME_BAD  == << " " >> \o SLASH_FIXME \o << ":", "x", NL >>
NS_OPEN    == NAMESPACE_KW \o << "n", "{", NL >>
NS_CLOSE   == CLOSE_COMMENT \o << "n", NL >>

\* the file of kind k stored under filepath
MainFile(k, filepath) ==
    CASE k = "clean" ->
            [fault |-> << >>,
             content |-> PRAGMA_ONCE \o << NL >> \o TODO_GOOD
                         \o NS_OPEN \o NS_CLOSE]
      [] k = "guarded" ->
            [fault |-> << >>,
             content |-> DirectiveLine(HASH_IFNDEF, "exact", expected_guard(filepath))
                         \o DirectiveLine(HASH_DEFINE, "exact", expected_guard(filepath))
                         \o TODO_BAD \o FIXME_BAD]
      [] k = "bare" ->
            [fault |-> << >>,
             content |-> NS_OPEN \o << "}", NL >> \o TODO_NAMED]
      [] OTHER ->
            [fault |-> << "[Errno 2] No such file or directory" >>,
             content |-> << >>]

NoFile == [fault |-> << >>, content |-> << >>]

(***************************************************************************)
(* Parts of the state a specification does not use stay as they are here   *)
(***************************************************************************)
MainIdle ==
    /\ checker = "header-guards"
    /\ fs = << >>
    /\ argv = << >>
    /\ pc = "idle"
    /\ idx = 0
    /\ failed = << >>
    /\ out = << >>
    /\ opened = << >>
    /\ exitCode = -1

HgIdle ==
    /\ hgPath = << >>
    /\ hgShape = [pragma |-> FALSE, ifndef |-> "absent", define |-> "absent",
                  fault |-> << >>]
    /\ hgFile = NoFile
    /\ hgDone = FALSE
    /\ hgGuard = << >>
    /\ hgRet = FALSE
    /\ hgOut = << >>

TdIdle ==
    /\ tdShape = [lines |-> << >>, finalNL |-> TRUE, fault |-> << >>]
    /\ tdFile = NoFile
    /\ tdDone = FALSE
    /\ tdRet = FALSE
    /\ tdOut = << >>

CvIdle ==
    /\ cvArgs = [clean |-> FALSE, no_build |-> FALSE]
    /\ cvTools = [cmake |-> TRUE, llvm_cov |-> TRUE, llvm_profdata |-> TRUE,
                  vcpkg |-> TRUE]
    /\ cvPc = "idle"
    /\ cvTrace = << >>
    /\ cvBuildDir = FALSE
    /\ cvHtml = FALSE
    /\ cvExit = -1
    /\ cvSoft = {}
    /\ cvCause = "none"

CqIdle ==
    /\ cqArgs = [format_only |-> FALSE, tidy_only |-> FALSE]
    /\ cqFiles = 0
    /\ cqBuild = FALSE
    /\ cqPc = "idle"
    /\ cqProbe = 0
    /\ cqIdx = 0
    /\ cqIssues = 0
    /\ cqSuccess = TRUE
    /\ cqCalls = << >>
    /\ cqExit = -1
    /\ cqCause = "none"

(***************************************************************************)
(* Spec: one run of one of the three checkers                              *)
(***************************************************************************)
Init ==
    /\ checker \in Checkers
    /\ \E k \in [MainPaths -> FileKinds] :
          fs = [p \in MainPaths |-> MainFile(k[p], p)]
    /\ argv \in SeqsUpTo(MainPaths, MaxFiles)
    /\ MainInit
    /\ HgIdle /\ TdIdle /\ CvIdle /\ CqIdle

Next ==
    \/ MainNoFiles    /\ UNCHANGED << hgVars, tdVars, cvVars, cqVars >>
    \/ MainBegin      /\ UNCHANGED << hgVars, tdVars, cvVars, cqVars >>
    \/ LoopHeaderGuards /\ UNCHANGED << hgVars, tdVars, cvVars, cqVars >>
    \/ LoopTodos      /\ UNCHANGED << hgVars, tdVars, cvVars, cqVars >>
    \/ LoopNamespaces /\ UNCHANGED << hgVars, tdVars, cvVars, cqVars >>
    \/ MainFinish     /\ UNCHANGED << hgVars, tdVars, cvVars, cqVars >>

Spec == Init /\ [][Next]_vars

(***************************************************************************)
(* SpecGuard: one call of check_header_guard on any path and header        *)
(***************************************************************************)
InitGuard ==
    /\ hgPath \in Paths
    /\ hgShape \in HeaderShapes
    /\ hgFile = HeaderFile(hgShape, hgPath)
    /\ hgDone = FALSE
    /\ hgGuard = << >>
    /\ hgRet = FALSE
    /\ hgOut = << >>
    /\ MainIdle /\ TdIdle /\ CvIdle /\ CqIdle

CallCheckHeaderGuard ==
    /\ ~hgDone
    /\ LET r == check_header_guard(hgPath, hgFile)
       IN  /\ hgRet' = r.ret
           /\ hgOut' = r.out
    /\ hgGuard' = expected_guard(hgPath)
    /\ hgDone' = TRUE
    /\ UNCHANGED << hgPath, hgShape, hgFile, mainVars, tdVars, cvVars, cqVars >>

NextGuard == CallCheckHeaderGuard

SpecGuard == InitGuard /\ [][NextGuard]_vars

(***************************************************************************)
(* SpecTodos: one call of check_todos on any file                          *)
(***************************************************************************)
TodoPath == << "t", ".", "h" >>

InitTodos ==
    /\ tdShape \in TodoShapes
    /\ tdFile = TodoFile(tdShape)
    /\ tdDone = FALSE
    /\ tdRet = FALSE
    /\ tdOut = << >>
    /\ MainIdle /\ HgIdle /\ CvIdle /\ CqIdle

CallCheckTodos ==
    /\ ~tdDone
    /\ LET r == check_todos(TodoPath, tdFile)
       IN  /\ tdRet' = r.ret
           /\ tdOut' = r.out
    /\ tdDone' = TRUE
    /\ UNCHANGED << tdShape, tdFile, mainVars, hgVars, cvVars, cqVars >>

NextTodos == CallCheckTodos

SpecTodos == InitTodos /\ [][NextTodos]_vars

(***************************************************************************)
(* Properties of main() (checked under Spec)                               *)
(***************************************************************************)
Range(s) == { s[i] : i \in 1..Len(s) }

Last(s) == s[Len(s)]

\* the check of script `checker' fails the file stored under filepath
FileFails(filepath) == ~Check(checker, filepath, fs[filepath]).ret

Unreadable(filepath) == fs[filepath].fault # << >>

\* the files among the first n arguments that fail, in argument order
FailingAmong(n) == SelectSeq(SubSeq(argv, 1, n), FileFails)

\* the lines that open a diagnostic block
IsBlockStart(l) == l.kind \in { "read_error", "missing_guard", "block_header" }

\* C1: when main() has returned, every file given has been checked, and the
\* exit code is 1 if and only if the check of at least one file given
\* returned false, and 0 otherwise.
C1_ExitIsConjunction ==
    pc = "done" =>
        /\ exitCode = (IF \E i \in 1..Len(argv) : FileFails(argv[i])
                       THEN 1 ELSE 0)
        /\ idx = Len(argv)

\* a run that ends with 1 although the last file given passes
C1_Witness ==
    /\ pc = "done"
    /\ exitCode = 1
    /\ Len(argv) >= 2
    /\ ~FileFails(argv[Len(argv)])
    /\ FileFails(argv[1])

\* C2: with no file given, nothing is ever printed, no file is opened, no
\* turn of the loop is taken, and main() returns 0.
C2_NoFilesSilentSuccess ==
    argv = << >> =>
        /\ out = << >>
        /\ opened = << >>
        /\ idx = 0
        /\ exitCode \in { -1, 0 }
        /\ pc = "done" => exitCode = 0

\* a finished run without files
C2_Witness == argv = << >> /\ pc = "done" /\ exitCode = 0

\* C3: every file that was opened and whose read faulted is in `failed', and
\* what was printed about it is one line per time it was opened, each a
\* read error carrying the fault's message; when main() has returned every
\* file given has been opened, in order, and a faulted file makes the run
\* end with the summary line and exit code 1.
C3_ReadFaultIsFailure ==
    /\ \A i \in 1..Len(opened) :
          Unreadable(opened[i]) =>
             /\ opened[i] \in Range(failed)
             /\ LET about == SelectSeq(out, LAMBDA l : l.file = opened[i])
                    times == Cardinality({ j \in 1..Len(opened) :
                                             opened[j] = opened[i] })
                IN  /\ Len(about) = times
                    /\ \A j \in 1..Len(about) :
                          /\ about[j].kind = "read_error"
                          /\ about[j].text = fs[opened[i]].fault
    /\ pc = "done" =>
          /\ opened = argv
          /\ (\E i \in 1..Len(argv) : Unreadable(argv[i])) =>
                /\ exitCode = 1
                /\ out # << >>
                /\ Last(out).kind = "summary"

\* a finished run whose first file could not be read and whose last file,
\* read after it, passed
C3_Witness ==
    /\ pc = "done"
    /\ Len(argv) >= 2
    /\ Unreadable(argv[1])
    /\ ~Unreadable(argv[Len(argv)])
    /\ ~FileFails(argv[Len(argv)])
    /\ opened = argv

\* C8: at every moment the files opened are the first idx files given, in
\* order, and the diagnostic blocks printed are exactly those of the failing
\* files among them, in order; nothing is printed about a passing file; the
\* summary line is printed once, last, with the number M of failing files,
\* when main() has returned and M > 0, and never otherwise.
C8_BlocksThenSummary ==
    LET blocks  == SelectSeq(out, IsBlockStart)
        summary == SelectSeq(out, LAMBDA l : l.kind = "summary")
        failing == FailingAmong(idx)
    IN  /\ opened = SubSeq(argv, 1, idx)
        /\ [j \in 1..Len(blocks) |-> blocks[j].file] = failing
        /\ \A j \in 1..Len(out) :
              out[j].kind # "summary" => out[j].file \in Range(failing)
        /\ IF pc = "done" /\ failing # << >>
           THEN /\ summary = << Line("summary", << >>, << checker >>, Len(failing)) >>
                /\ Last(out).kind = "summary"
           ELSE summary = << >>

\* a finished run over three files of which the first and the last fail
C8_Witness ==
    /\ pc = "done"
    /\ Len(argv) = 3
    /\ FileFails(argv[1])
    /\ ~FileFails(argv[2])
    /\ FileFails(argv[3])
    /\ Len(SelectSeq(out, IsBlockStart)) = 2

\* C9 as stated: check-namespaces never records a failed file and never
\* exits with anything but 0.
C9_NamespacesNeverFail ==
    checker = "namespaces" => failed = << >> /\ exitCode \in { -1, 0 }

\* C9 as amended: check-namespaces records as failed only files whose read
\* faulted, prints nothing but read errors and the summary, and exits 0 if
\* and only if every file given could be read.
C9_NamespacesPassReadable ==
    checker = "namespaces" =>
        /\ \A i \in 1..Len(failed) : Unreadable(failed[i])
        /\ \A j \in 1..Len(out) : out[j].kind \in { "read_error", "summary" }
        /\ pc = "done" =>
              (exitCode = 0 <=> \A i \in 1..Len(argv) : ~Unreadable(argv[i]))

\* check-namespaces exits 0 on a file that opens a namespace and has no
\* commented closing brace
C9_Witness ==
    /\ checker = "namespaces"
    /\ pc = "done"
    /\ exitCode = 0
    /\ \E i \in 1..Len(argv) :
          /\ Contains(fs[argv[i]].content, NAMESPACE_KW)
          /\ ~Contains(fs[argv[i]].content, CLOSE_COMMENT)

(***************************************************************************)
(* Properties of check_header_guard (checked under SpecGuard)              *)
(***************************************************************************)
\* C4 as stated: a readable header passes if it has the pragma, and
\* otherwise if and only if both its #ifndef and its #define carry exactly
\* the expected guard.
C4_ExactGuardOnly ==
    (hgDone /\ hgShape.fault = << >>) =>
        (hgRet <=> \/ hgShape.pragma
                   \/ hgShape.ifndef = "exact" /\ hgShape.define = "exact")

\* what replace('/', '_').replace('.', '_').upper() makes of one character
GuardChar(c) == IF c \in { "/", "." } THEN "_" ELSE UpperChar(c)

C6_EveryOccurrenceJudged ==
    (tdDone /\ tdFile.fault = << >>) =>
        LET lines == readlines(tdFile.content)
        IN  ~tdRet <=> \E n \in 1..Len(lines) : \E i \in 1..Len(lines[n]) :
                           /\ todo_match_at(lines[n], i)
                           /\ ~valid_match_at(lines[n], i)

\* chunk k of the line is a strictly formed annotation: no empty
\* attribution, a colon, a blank, and something more on the line
ChunkWellFormed(l, k) ==
    LET c == l.chunks[k]
    IN  /\ c.attr # "empty"
        /\ c.colon
        /\ Len(c.blanks) >= 1
        /\ \/ Len(c.blanks) >= 2
           \/ c.text
           \/ k < Len(l.chunks)

\* the line has a marker and no strictly formed annotation
LineViolates(l) ==
    /\ l.chunks # << >>
    /\ \A k \in 1..Len(l.chunks) : ~ChunkWellFormed(l, k)

\* C6 as amended: a readable file fails if and only if some line has a
\* marker and no strictly formed annotation at all; a line with one
\* strictly formed annotation is no violation, whatever else is on it.
C6_LineJudgedAsWhole ==
    (tdDone /\ tdShape.fault = << >>) =>
        (~tdRet <=> \E n \in 1..Len(tdShape.lines) :
                       LineViolates(tdShape.lines[n]))

\* a file that passes with a malformed and a well-formed marker on one line
C6_Witness ==
    /\ tdDone
    /\ tdRet
    /\ \E n \in 1..Len(tdShape.lines) :
          LET l == tdShape.lines[n]
          IN  /\ Len(l.chunks) = 2
              /\ ~ChunkWellFormed(l, 1)
              /\ ChunkWellFormed(l, 2)

\* the line as line.strip() leaves it: no indentation, and no blanks after
\* a last chunk without text
TrimmedLine(l) ==
    LET m == Len(l.chunks)
    IN  Flatten([k \in 1..m |->
            ChunkText(IF k = m /\ ~l.chunks[k].text
                      THEN [l.chunks[k] EXCEPT !.blanks = << >>]
                      ELSE l.chunks[k])])

\* C7: the 'Line N: text' diagnostics of a readable file are as many as its
\* violating lines, each names a violating line by its 1-based number with
\* that line's trimmed text, and the numbers strictly ascend.
C7_AllIssuesInOrder ==
    (tdDone /\ tdShape.fault = << >>) =>
        LET violating == { n \in 1..Len(tdShape.lines) :
                              LineViolates(tdShape.lines[n]) }
            issues    == SelectSeq(tdOut, LAMBDA l : l.kind = "issue")
        IN  /\ Len(issues) = Cardinality(violating)
            /\ \A j \in 1..Len(issues) :
                  /\ issues[j].n \in violating
                  /\ issues[j].text = TrimmedLine(tdShape.lines[issues[j].n])
                  /\ j < Len(issues) => issues[j].n < issues[j + 1].n

\* a four-line file with three violating lines, the second line passing
C7_Witness ==
    /\ tdDone
    /\ Len(tdShape.lines) = 4
    /\ LET issues == SelectSeq(tdOut, LAMBDA l : l.kind = "issue")
       IN  /\ Len(issues) = 3
           /\ issues[1].n = 1
           /\ issues[2].n = 3
           /\ issues[3].n = 4

(***************************************************************************)
(* scripts/run-coverage.py.  --open is left out: open_report changes       *)
(* nothing the pipeline reads and swallows its own exceptions.             *)
(***************************************************************************)
StepOrder ==
    << "validate", "clean", "configure", "build", "coverage-clean",
       "coverage-html", "summary", "results", "complete" >>

\* how a subprocess.run call can end
Outcomes == { "zero", "nonzero", "launch_fault", "interrupt" }

\* a variant that always runs with check=True
run_command_always_checked(outcome, check) ==
    CASE outcome = "zero"         -> "returned"
      [] outcome = "nonzero"      -> "CalledProcessError"
      [] outcome = "launch_fault" -> "OSError"
      [] OTHER                    -> "KeyboardInterrupt"

\* run_command(cmd, check=...): it returns the result, or an exception leaves
\* it: CalledProcessError is re-raised, any other is never caught here
run_command(outcome, check) ==
    CASE outcome = "zero"         -> "returned"
      [] outcome = "nonzero"      -> IF check THEN "CalledProcessError" ELSE "returned"
      [] outcome = "launch_fault" -> "OSError"
      [] OTHER                    -> "KeyboardInterrupt"

\* the handlers around main(): KeyboardInterrupt exits 130, any other
\* Exception exits 1
top_level_status(exception) ==
    IF exception = "KeyboardInterrupt" THEN 130 ELSE 1

\* a variant in which a missing vcpkg toolchain is not counted
missing_tools_but_vcpkg(tools) ==
    \/ ~tools.cmake
    \/ ~tools.llvm_cov
    \/ ~tools.llvm_profdata

\* validate_environment's flag missing_tools after the four checks; the
\* SystemExit of get_vcpkg_toolchain is caught and sets it too
missing_tools(tools) ==
    \/ ~tools.cmake
    \/ ~tools.llvm_cov
    \/ ~tools.llvm_profdata
    \/ ~tools.vcpkg

\* the step main() runs after validate_environment, and after the clean
after_clean(args) == IF ~args.no_build THEN "configure" ELSE "coverage-html"
after_validate(args) == IF args.clean THEN "clean" ELSE after_clean(args)

\* the process ends with the given status
Exit(status, cause) ==
    /\ cvPc' = "exited"
    /\ cvExit' = status
    /\ cvCause' = cause

\* main() goes on with the given step
Goto(step) ==
    /\ cvPc' = step
    /\ UNCHANGED << cvExit, cvCause >>

\* a step that is one run_command call: it goes on when the call returns
\* and ends the process when an exception leaves it
CommandStep(step, check, next) ==
    /\ cvPc = step
    /\ cvTrace' = Append(cvTrace, step)
    /\ \E o \in Outcomes :
          LET r == run_command(o, check)
          IN  /\ cvSoft' = IF o = "nonzero" /\ r = "returned"
                           THEN cvSoft \cup { step } ELSE cvSoft
              /\ IF r = "returned" THEN Goto(next)
                 ELSE Exit(top_level_status(r), r)

ValidateEnvironment ==
    /\ cvPc = "validate"
    /\ cvTrace' = Append(cvTrace, "validate")
    /\ IF missing_tools(cvTools)
       THEN Exit(1, "missing_tools")
       ELSE Goto(after_validate(cvArgs))
    /\ UNCHANGED << cvArgs, cvTools, cvBuildDir, cvHtml, cvSoft >>

\* shutil.rmtree(build_dir) when it exists
CleanBuildDirectory ==
    /\ cvPc = "clean"
    /\ cvTrace' = Append(cvTrace, "clean")
    /\ cvBuildDir' = FALSE
    /\ cvHtml' = FALSE
    /\ Goto(after_clean(cvArgs))
    /\ UNCHANGED << cvArgs, cvTools, cvSoft >>

\* cmake -S . -B build: a successful configuration leaves build/
ConfigureCmake ==
    /\ CommandStep("configure", TRUE, "build")
    /\ cvBuildDir' = (cvBuildDir \/ cvPc' = "build")
    /\ UNCHANGED << cvArgs, cvTools, cvHtml >>

BuildProject ==
    /\ CommandStep("build", TRUE, "coverage-clean")
    /\ UNCHANGED << cvArgs, cvTools, cvBuildDir, cvHtml >>

\* the coverage-clean target may remove an earlier report
CleanCoverageData ==
    /\ CommandStep("coverage-clean", FALSE, "coverage-html")
    /\ cvHtml' \in { cvHtml, FALSE }
    /\ UNCHANGED << cvArgs, cvTools, cvBuildDir >>

\* the coverage-html target may or may not leave a report; without one
\* run_coverage calls sys.exit(1)
RunCoverage ==
    /\ cvPc = "coverage-html"
    /\ cvTrace' = Append(cvTrace, "coverage-html")
    /\ \E o \in Outcomes, made \in BOOLEAN :
          LET r == run_command(o, FALSE)
          IN  /\ cvSoft' = IF o = "nonzero" THEN cvSoft \cup { "coverage-html" }
                           ELSE cvSoft
              /\ cvHtml' = (cvHtml \/ (made /\ o \in { "zero", "nonzero" }))
              /\ cvBuildDir' = (cvBuildDir \/ cvHtml')
              /\ IF r # "returned" THEN Exit(top_level_status(r), r)
                 ELSE IF ~cvHtml' THEN Exit(1, "no_report")
                 ELSE Goto("summary")
    /\ UNCHANGED << cvArgs, cvTools >>

\* llvm-cov report: a non-zero status only prints two warnings
DisplaySummary ==
    /\ CommandStep("summary", FALSE, "results")
    /\ UNCHANGED << cvArgs, cvTools, cvBuildDir, cvHtml >>

PrintResults ==
    /\ cvPc = "results"
    /\ cvTrace' = Append(cvTrace, "results")
    /\ IF cvHtml THEN Goto("complete") ELSE Exit(1, "no_report")
    /\ UNCHANGED << cvArgs, cvTools, cvBuildDir, cvHtml, cvSoft >>

\* print_header("Coverage Analysis Complete"); main() returns
Complete ==
    /\ cvPc = "complete"
    /\ cvTrace' = Append(cvTrace, "complete")
    /\ Exit(0, "complete")
    /\ UNCHANGED << cvArgs, cvTools, cvBuildDir, cvHtml, cvSoft >>

InitCov ==
    /\ cvArgs \in [clean : BOOLEAN, no_build : BOOLEAN]
    /\ cvTools \in [cmake : BOOLEAN, llvm_cov : BOOLEAN,
                    llvm_profdata : BOOLEAN, vcpkg : BOOLEAN]
    /\ cvBuildDir \in BOOLEAN
    /\ cvHtml \in BOOLEAN
    /\ cvHtml => cvBuildDir
    /\ cvPc = "validate"
    /\ cvTrace = << >>
    /\ cvExit = -1
    /\ cvSoft = {}
    /\ cvCause = "none"
    /\ MainIdle /\ HgIdle /\ TdIdle /\ CqIdle

NextCov ==
    \/ ValidateEnvironment /\ UNCHANGED << mainVars, hgVars, tdVars, cqVars >>
    \/ CleanBuildDirectory /\ UNCHANGED << mainVars, hgVars, tdVars, cqVars >>
    \/ ConfigureCmake      /\ UNCHANGED << mainVars, hgVars, tdVars, cqVars >>
    \/ BuildProject        /\ UNCHANGED << mainVars, hgVars, tdVars, cqVars >>
    \/ CleanCoverageData   /\ UNCHANGED << mainVars, hgVars, tdVars, cqVars >>
    \/ RunCoverage         /\ UNCHANGED << mainVars, hgVars, tdVars, cqVars >>
    \/ DisplaySummary      /\ UNCHANGED << mainVars, hgVars, tdVars, cqVars >>
    \/ PrintResults        /\ UNCHANGED << mainVars, hgVars, tdVars, cqVars >>
    \/ Complete            /\ UNCHANGED << mainVars, hgVars, tdVars, cqVars >>

SpecCov == InitCov /\ [][NextCov]_vars

(***************************************************************************)
(* Properties of run-coverage.py (checked under SpecCov)                   *)
(***************************************************************************)
Rank(step) == CHOOSE i \in 1..Len(StepOrder) : StepOrder[i] = step

\* the steps a run that nothing stops goes through
FullRun(args) ==
    << "validate" >>
    \o (IF args.clean THEN << "clean" >> ELSE << >>)
    \o (IF args.no_build THEN << >>
        ELSE << "configure", "build", "coverage-clean" >>)
    \o << "coverage-html", "summary", "results", "complete" >>

\* C10: the steps entered so far are the first steps of the fixed sequence
\* (with the clean only under --clean, and configure, build and
\* coverage-clean left out under --no-build), so they come in the fixed
\* order; with a required tool missing nothing but the validation is ever
\* entered and the process exits 1; without the HTML report no step after
\* coverage-html is ever entered and the process exits non-zero; exit
\* status 0 comes only at the end of the whole sequence.
C10_OrderedShortCircuit ==
    /\ Len(cvTrace) <= Len(FullRun(cvArgs))
    /\ cvTrace = SubSeq(FullRun(cvArgs), 1, Len(cvTrace))
    /\ \A i, j \in 1..Len(cvTrace) :
          i < j => Rank(cvTrace[i]) < Rank(cvTrace[j])
    /\ (\E t \in DOMAIN cvTools : ~cvTools[t]) =>
          /\ cvTrace \in { << >>, << "validate" >> }
          /\ cvTrace = << "validate" >> => cvPc = "exited" /\ cvExit = 1
    /\ ("coverage-html" \in Range(cvTrace) /\ ~cvHtml) =>
          /\ Last(cvTrace) = "coverage-html"
          /\ cvPc = "exited"
          /\ cvExit \notin { -1, 0 }
    /\ cvExit = 0 => cvTrace = FullRun(cvArgs)
    /\ cvExit # -1 <=> cvPc = "exited"

\* a full build whose coverage target left no report: the run stops there
C10_Witness ==
    /\ cvPc = "exited"
    /\ cvExit = 1
    /\ cvCause = "no_report"
    /\ cvTrace = << "validate", "clean", "configure", "build",
                    "coverage-clean", "coverage-html" >>

\* the steps whose command runs with check=False
SoftSteps == { "coverage-clean", "coverage-html", "summary" }

\* C11: a non-zero exit of the coverage-clean, coverage-html or llvm-cov
\* report command never ends the run by itself: the run stops at such a
\* step only for a missing HTML report (at coverage-html) or for an
\* exception that is no non-zero exit; CalledProcessError ends the run only
\* at configure or build; and a run that ends with the report present and
\* without an exception or a missing tool has gone through summary and
\* results to 'Coverage Analysis Complete' with exit status 0.
C11_SoftFailuresTolerated ==
    /\ cvSoft \subseteq SoftSteps \cap Range(cvTrace)
    /\ cvCause = "CalledProcessError" => Last(cvTrace) \in { "configure", "build" }
    /\ cvCause = "no_report" => ~cvHtml /\ Last(cvTrace) = "coverage-html"
    /\ (cvPc = "exited" /\ cvExit # 0) =>
          cvCause \in { "missing_tools", "CalledProcessError", "OSError",
                        "KeyboardInterrupt", "no_report" }
    /\ (/\ cvPc = "exited"
        /\ cvHtml
        /\ cvCause \notin { "missing_tools", "CalledProcessError", "OSError",
                            "KeyboardInterrupt" }) =>
          /\ cvExit = 0
          /\ cvTrace = FullRun(cvArgs)

\* a run in which all three tolerated commands returned non-zero and which
\* still completed with exit status 0
C11_Witness ==
    /\ cvPc = "exited"
    /\ cvExit = 0
    /\ cvSoft = SoftSteps
    /\ Last(cvTrace) = "complete"

(***************************************************************************)
(* scripts/run-code-quality.py                                             *)
(***************************************************************************)
\* subprocess.run(..., timeout=300)
QualityTimeout == 300

\* len(clang_format_paths)
NumCandidates == 2

\* how a subprocess.run call with a timeout can end
QOutcomes == { "zero", "nonzero", "timeout", "launch_fault" }

\* a variant without the except clause: the exception leaves run_command
quality_run_command_unguarded(outcome) ==
    [ok |-> outcome = "zero", raised |-> outcome \in { "timeout", "launch_fault" }]

\* run_command(cmd, description): returncode == 0, or False from the except
\* clause when subprocess.run raised (TimeoutExpired, OSError)
quality_run_command(outcome) ==
    [ok |-> outcome = "zero", raised |-> FALSE]

\* one run_command call as it is logged
QCall(cmd, outcome) ==
    [cmd |-> cmd, timeout |-> QualityTimeout, outcome |-> outcome,
     ok |-> quality_run_command(outcome).ok]

\* the part of main() that follows the format check, and the first part
after_format(args) == IF ~args.format_only THEN "tidy" ELSE "finish"
after_start(args) == IF ~args.tidy_only THEN "format" ELSE after_format(args)

\* an exception leaves main(): traceback, exit status 1
QCrash ==
    /\ cqPc' = "exited"
    /\ cqExit' = 1
    /\ cqCause' = "exception"

\* main() up to the first check: success = True
QualityStart ==
    /\ cqPc = "start"
    /\ cqSuccess' = TRUE
    /\ cqPc' = after_start(cqArgs)
    /\ UNCHANGED << cqArgs, cqFiles, cqBuild, cqProbe, cqIdx, cqIssues,
                    cqCalls, cqExit, cqCause >>

\* run_clang_format_check up to the search for clang-format: without C++
\* files it returns True
FormatBegin ==
    /\ cqPc = "format"
    /\ cqPc' = IF cqFiles = 0 THEN after_format(cqArgs) ELSE "probe"
    /\ cqProbe' = 0
    /\ UNCHANGED << cqArgs, cqFiles, cqBuild, cqIdx, cqIssues, cqSuccess,
                    cqCalls, cqExit, cqCause >>

\* one turn of `for path in clang_format_paths': [path, "--version"]; after
\* the last candidate without success the check returns False
FormatProbe ==
    /\ cqPc = "probe"
    /\ \E o \in QOutcomes :
          LET r == quality_run_command(o)
          IN  /\ cqCalls' = Append(cqCalls, QCall("version", o))
              /\ IF r.raised
                 THEN QCrash /\ UNCHANGED << cqProbe, cqIdx, cqIssues, cqSuccess >>
                 ELSE IF r.ok
                 THEN /\ cqPc' = "files"
                      /\ cqIdx' = 0
                      /\ cqIssues' = 0
                      /\ UNCHANGED << cqProbe, cqSuccess, cqExit, cqCause >>
                 ELSE /\ cqProbe' = cqProbe + 1
                      /\ IF cqProbe + 1 = NumCandidates
                         THEN /\ cqSuccess' = FALSE
                              /\ cqPc' = after_format(cqArgs)
                         ELSE UNCHANGED << cqSuccess, cqPc >>
                      /\ UNCHANGED << cqIdx, cqIssues, cqExit, cqCause >>
    /\ UNCHANGED << cqArgs, cqFiles, cqBuild >>

\* one turn of `for file_path in cpp_files': clang-format --dry-run --Werror
FormatFile ==
    /\ cqPc = "files"
    /\ cqIdx < cqFiles
    /\ \E o \in QOutcomes :
          LET r == quality_run_command(o)
          IN  /\ cqCalls' = Append(cqCalls, QCall("check", o))
              /\ IF r.raised
                 THEN QCrash /\ UNCHANGED << cqIdx, cqIssues >>
                 ELSE /\ cqIdx' = cqIdx + 1
                      /\ cqIssues' = IF r.ok THEN cqIssues ELSE cqIssues + 1
                      /\ UNCHANGED << cqPc, cqExit, cqCause >>
    /\ UNCHANGED << cqArgs, cqFiles, cqBuild, cqProbe, cqSuccess >>

\* return issues == 0, and main's `if not ...: success = False'
FormatEnd ==
    /\ cqPc = "files"
    /\ cqIdx = cqFiles
    /\ cqSuccess' = (cqSuccess /\ cqIssues = 0)
    /\ cqPc' = after_format(cqArgs)
    /\ UNCHANGED << cqArgs, cqFiles, cqBuild, cqProbe, cqIdx, cqIssues,
                    cqCalls, cqExit, cqCause >>

\* run_clang_tidy_check: the tidy-all target when build/ exists; it returns
\* True whatever the command gave
TidyCheck ==
    /\ cqPc = "tidy"
    /\ IF cqBuild
       THEN \E o \in QOutcomes :
               /\ cqCalls' = Append(cqCalls, QCall("tidy", o))
               /\ IF quality_run_command(o).raised
                  THEN QCrash
                  ELSE /\ cqPc' = "finish"
                       /\ UNCHANGED << cqExit, cqCause >>
       ELSE /\ cqPc' = "finish"
            /\ UNCHANGED << cqCalls, cqExit, cqCause >>
    /\ UNCHANGED << cqArgs, cqFiles, cqBuild, cqProbe, cqIdx, cqIssues,
                    cqSuccess >>

\* the end of main(): return 0 if success else 1
QualityFinish ==
    /\ cqPc = "finish"
    /\ cqPc' = "exited"
    /\ cqExit' = IF cqSuccess THEN 0 ELSE 1
    /\ cqCause' = "returned"
    /\ UNCHANGED << cqArgs, cqFiles, cqBuild, cqProbe, cqIdx, cqIssues,
                    cqSuccess, cqCalls >>

InitQuality ==
    /\ cqArgs \in [format_only : BOOLEAN, tidy_only : BOOLEAN]
    /\ cqFiles \in 0..MaxCpp
    /\ cqBuild \in BOOLEAN
    /\ cqPc = "start"
    /\ cqProbe = 0
    /\ cqIdx = 0
    /\ cqIssues = 0
    /\ cqSuccess = TRUE
    /\ cqCalls = << >>
    /\ cqExit = -1
    /\ cqCause = "none"
    /\ MainIdle /\ HgIdle /\ TdIdle /\ CvIdle

(***************************************************************************)
(* SpecWrappers: one run of one of the two wrapper scripts                 *)
(***************************************************************************)
InitWrappers == InitCov \/ InitQuality

NextWrappers ==
    \/ ValidateEnvironment /\ UNCHANGED << mainVars, hgVars, tdVars, cqVars >>
    \/ CleanBuildDirectory /\ UNCHANGED << mainVars, hgVars, tdVars, cqVars >>
    \/ ConfigureCmake      /\ UNCHANGED << mainVars, hgVars, tdVars, cqVars >>
    \/ BuildProject        /\ UNCHANGED << mainVars, hgVars, tdVars, cqVars >>
    \/ CleanCoverageData   /\ UNCHANGED << mainVars, hgVars, tdVars, cqVars >>
    \/ RunCoverage         /\ UNCHANGED << mainVars, hgVars, tdVars, cqVars >>
    \/ DisplaySummary      /\ UNCHANGED << mainVars, hgVars, tdVars, cqVars >>
    \/ PrintResults        /\ UNCHANGED << mainVars, hgVars, tdVars, cqVars >>
    \/ Complete            /\ UNCHANGED << mainVars, hgVars, tdVars, cqVars >>
    \/ QualityStart  /\ UNCHANGED << mainVars, hgVars, tdVars, cvVars >>
    \/ FormatBegin   /\ UNCHANGED << mainVars, hgVars, tdVars, cvVars >>
    \/ FormatProbe   /\ UNCHANGED << mainVars, hgVars, tdVars, cvVars >>
    \/ FormatFile    /\ UNCHANGED << mainVars, hgVars, tdVars, cvVars >>
    \/ FormatEnd     /\ UNCHANGED << mainVars, hgVars, tdVars, cvVars >>
    \/ TidyCheck     /\ UNCHANGED << mainVars, hgVars, tdVars, cvVars >>
    \/ QualityFinish /\ UNCHANGED << mainVars, hgVars, tdVars, cvVars >>

SpecWrappers == InitWrappers /\ [][NextWrappers]_vars

(***************************************************************************)
(* Properties of the wrapper scripts (checked under SpecWrappers)          *)
(***************************************************************************)
CallsOf(cmd) == SelectSeq(cqCalls, LAMBDA c : c.cmd = cmd)

\* C12 as stated: in both wrappers every call has the timeout 300 and no
\* timeout or launch fault ends the run through an exception.
C12_FaultsNeverEndTheRun ==
    /\ \A i \in 1..Len(cqCalls) : cqCalls[i].timeout = 300
    /\ cqCause # "exception"
    /\ cvCause # "OSError"

\* C12 as amended: in run-code-quality every call has the timeout 300, a
\* call that timed out or could not be launched counts as unsuccessful, no
\* exception ends the run, every later call of the run is still made (the
\* second clang-format candidate, one check per file, the tidy target) and
\* main() returns 0 or 1 from its flag `success'; in run-coverage a launch
\* fault ends the run with exit status 1 before the remaining steps.
C12_QualityContainsCoverageAborts ==
    /\ \A i \in 1..Len(cqCalls) :
          /\ cqCalls[i].timeout = 300
          /\ cqCalls[i].outcome \in { "timeout", "launch_fault" } => ~cqCalls[i].ok
    /\ cqCause # "exception"
    /\ cqExit \in { -1, 0, 1 }
    /\ cqPc = "exited" =>
          LET ranFormat == ~cqArgs.tidy_only /\ cqFiles > 0
              versions  == CallsOf("version")
              checks    == CallsOf("check")
              found     == \E i \in 1..Len(versions) : versions[i].outcome = "zero"
          IN  /\ cqCause = "returned"
              /\ IF ranFormat
                 THEN /\ Len(versions) >= 1
                      /\ found => Len(checks) = cqFiles
                      /\ ~found => Len(versions) = 2 /\ checks = << >>
                 ELSE versions = << >> /\ checks = << >>
              /\ Len(CallsOf("tidy")) =
                    (IF ~cqArgs.format_only /\ cqBuild THEN 1 ELSE 0)
              /\ cqExit = 1 <=>
                    /\ ranFormat
                    /\ \/ ~found
                       \/ \E i \in 1..Len(checks) : checks[i].outcome # "zero"
    /\ cvCause = "OSError" =>
          /\ cvPc = "exited"
          /\ cvExit = 1
          /\ Len(cvTrace) < Len(FullRun(cvArgs))
          /\ "complete" \notin Range(cvTrace)

\* a run of run-code-quality in which the check of the first file timed
\* out, the second file and the tidy target still ran, and main returned 1
C12_Witness ==
    /\ cqPc = "exited"
    /\ cqExit = 1
    /\ cqCause = "returned"
    /\ Len(CallsOf("check")) = 2
    /\ CallsOf("check")[1].outcome = "timeout"
    /\ Last(cqCalls).cmd = "tidy"

====
